---- MODULE Spec2Model ----
(***************************************************************************)
(* Model of src/tauri/src-tauri/src/lib.rs: the Tauri shell that spawns    *)
(* the .NET backend sidecar, relays its output events and polls its        *)
(* health endpoint.                                                        *)
(*                                                                         *)
(* Three threads of control are modelled: the setup closure of run()       *)
(* (appPc), the output-relay task (relayPc) and the readiness-probe task   *)
(* (probePc).  The backend process, its event channel, the health          *)
(* endpoint and the window system are the environment.                     *)
(***************************************************************************)
EXTENDS Integers, Sequences, FiniteSets, TLC

VARIABLES
    appPc,        \* position of run()/setup: see AppPcs
    setupErr,     \* the error setup returned: "none", "sidecar", "spawn"
    child_pid,    \* BackendState.child_pid: <<>> is None, <<p>> is Some(p)
    backend,      \* the sidecar process: "unspawned", "running", "exited"
    backendPid,   \* <<>> before the spawn, <<p>> the pid of the spawned child
    spawns,       \* number of successful sidecar spawns
    rx,           \* every event sent on the child's event channel, in order
    recvd,        \* how many of them rx.recv() has handed to the relay loop
    chanOpen,     \* TRUE while a sender of the channel is alive
    relayPc,      \* relay task: "off", "recv", "done"
    logged,       \* what the relay loop has printed, in order
    probePc,      \* probe task: "off", "client", "request", "sleep",
                  \*             "returned", "done"
    probeCalls,   \* calls of wait_for_backend_ready so far
    max_attempts, \* parameter of wait_for_backend_ready
    attempt,      \* loop variable of wait_for_backend_ready
    requests,     \* health requests issued so far
    delays,       \* 500 ms sleeps performed so far
    okAt,         \* number of the first request answered 2xx, 0 if none yet
    probeResult,  \* "none", "ok", "err_client", "err_timeout"
    callerLog,    \* what the probe task printed: "none", "ready", "warning"
    closeLogs     \* "Closing application" lines printed by on_window_event

vars == <<appPc, setupErr, child_pid, backend, backendPid, spawns, rx, recvd,
          chanOpen, relayPc, logged, probePc, probeCalls, max_attempts,
          attempt, requests, delays, okAt, probeResult, callerLog, closeLogs>>

appVars   == <<appPc, setupErr, child_pid, closeLogs>>
envVars   == <<backend, backendPid, spawns, rx, chanOpen>>
relayVars == <<recvd, relayPc, logged>>
probeVars == <<probePc, probeCalls, max_attempts, attempt, requests, delays,
               okAt, probeResult, callerLog>>

----------------------------------------------------------------------------
(* Bounds of the model *)

\* events the child sends on its channel when the relay is checked on its own
MaxEvents == 3
\* events the child sends on its channel when the whole application runs
MaxAppEvents == 2
\* largest max_attempts tried when wait_for_backend_ready is checked alone
MaxN == 8
\* close-requested notifications delivered to the window handler
MaxClose == 1

----------------------------------------------------------------------------
(* Values *)

\* the argument of the one call of wait_for_backend_ready
CallerAttempts == 40

None == <<>>
Some(x) == <<x>>

Pids == {"pid"}

\* HTTP status codes the health endpoint is tried with
Statuses == {200, 204, 404, 503}

\* outcome of client.get(..).send().await: a response or an error (connection
\* refused, the 2 s timeout, ...)
Responses == [ok : {TRUE}, status : Statuses] \cup [ok : {FALSE}, status : {0}]

\* reqwest StatusCode::is_success: 200..=299
is_success(status) == status >= 200 /\ status <= 299

\* a line of child output: bytes, here ASCII 'h' and the byte 0xFF, which is
\* never valid UTF-8
Lines == {<<104, 255>>}

\* String::from_utf8_lossy on lines made of ASCII bytes and 0xFF bytes: an
\* ASCII byte is its own code point, 0xFF becomes U+FFFD
from_utf8_lossy(line) ==
    [i \in 1..Len(line) |-> IF line[i] < 128 THEN line[i] ELSE 65533]

\* exit codes of TerminatedPayload.code: Option<i32>
ExitCodes == {None, Some(0)}

\* CommandEvent: the four kinds the loop names and any other kind (the enum
\* is matched with a wildcard arm)
Event(kind, line, code) == [kind |-> kind, line |-> line, code |-> code]
OutputEvents ==
    {Event(k, l, None) : k \in {"Stdout", "Stderr"}, l \in Lines}
    \cup {Event("Error", <<>>, None), Event("Other", <<>>, None)}
TerminatedEvents == {Event("Terminated", <<>>, c) : c \in ExitCodes}

Log(sink, tag, text, code) ==
    [sink |-> sink, tag |-> tag, text |-> text, code |-> code]

AppPcs == {"start", "sidecar", "spawn", "spawn_relay", "spawn_probe",
           "return", "running", "aborted"}

----------------------------------------------------------------------------
(* State after process start, before the setup closure runs *)

Init ==
    /\ appPc = "start"
    /\ setupErr = "none"
    /\ child_pid = None
    /\ backend = "unspawned"
    /\ backendPid = None
    /\ spawns = 0
    /\ rx = <<>>
    /\ recvd = 0
    /\ chanOpen = FALSE
    /\ relayPc = "off"
    /\ logged = <<>>
    /\ probePc = "off"
    /\ probeCalls = 0
    /\ max_attempts = 0
    /\ attempt = 0
    /\ requests = 0
    /\ delays = 0
    /\ okAt = 0
    /\ probeResult = "none"
    /\ callerLog = "none"
    /\ closeLogs = 0

----------------------------------------------------------------------------
(* run(): the setup closure, lines 49-111 *)

\* lines 50-54: the state is created with no pid and handed to the app
SetupManage ==
    /\ appPc = "start"
    /\ child_pid' = None
    /\ appPc' = "sidecar"
    /\ UNCHANGED <<setupErr, closeLogs, envVars, relayVars, probeVars>>

\* a setup that notes the error and carries on with the two tasks
SetupAbortCarriesOn(err) ==
    /\ setupErr' = err
    /\ appPc' = "spawn_relay"
    /\ UNCHANGED <<child_pid, closeLogs, envVars, relayVars, probeVars>>

\* a `?` on an Err inside setup: setup returns the error, Builder::run
\* returns it and .expect panics (lines 117-118)
SetupAbort(err) ==
    /\ setupErr' = err
    /\ appPc' = "aborted"
    /\ UNCHANGED <<child_pid, closeLogs, envVars, relayVars, probeVars>>

\* a setup that starts the probe task as soon as the sidecar command exists,
\* before the spawn
SetupSidecarStartsProbe ==
    /\ appPc = "sidecar"
    /\ \E found \in BOOLEAN :
         IF found
         THEN /\ appPc' = "spawn"
              /\ probePc' = "client"
              /\ max_attempts' = CallerAttempts
              /\ UNCHANGED <<setupErr, child_pid, closeLogs, envVars,
                             relayVars, probeCalls, attempt, requests, delays,
                             okAt, probeResult, callerLog>>
         ELSE SetupAbort("sidecar")

\* lines 57-58: app.shell().sidecar(..)?
SetupSidecar ==
    /\ appPc = "sidecar"
    /\ \E found \in BOOLEAN :
         IF found
         THEN /\ appPc' = "spawn"
              /\ UNCHANGED <<setupErr, child_pid, closeLogs, envVars,
                             relayVars, probeVars>>
         ELSE SetupAbort("sidecar")

\* lines 63-69: a successful spawn yields the channel rx and the child; the
\* child's pid is not stored anywhere
SpawnOk(pid) ==
    /\ backend' = "running"
    /\ backendPid' = Some(pid)
    /\ spawns' = spawns + 1
    /\ rx' = <<>>
    /\ chanOpen' = TRUE
    /\ appPc' = "spawn_relay"
    /\ UNCHANGED <<setupErr, child_pid, closeLogs, relayVars, probeVars>>

\* lines 63-67: sidecar_command.spawn()?
SetupSpawn ==
    /\ appPc = "spawn"
    /\ \/ \E pid \in Pids : SpawnOk(pid)
       \/ SetupAbort("spawn")

\* lines 72-95: the relay task is handed to the async runtime
SetupSpawnRelay ==
    /\ appPc = "spawn_relay"
    /\ relayPc' = "recv"
    /\ appPc' = "spawn_probe"
    /\ UNCHANGED <<setupErr, child_pid, closeLogs, envVars, recvd, logged,
                   probeVars>>

\* lines 98-108: the probe task is handed to the async runtime
SetupSpawnProbe ==
    /\ appPc = "spawn_probe"
    /\ probePc' = "client"
    /\ max_attempts' = CallerAttempts
    /\ appPc' = "return"
    /\ UNCHANGED <<setupErr, child_pid, closeLogs, envVars, relayVars,
                   probeCalls, attempt, requests, delays, okAt, probeResult,
                   callerLog>>

\* line 110: Ok(())
ReturnOk ==
    /\ appPc' = "running"
    /\ UNCHANGED <<setupErr, child_pid, closeLogs, envVars, relayVars,
                   probeVars>>

\* a setup that blocks on the probe task before it returns
SetupReturnAfterProbe ==
    /\ appPc = "return"
    /\ probePc = "done"
    /\ ReturnOk

\* line 110: setup returns as soon as both tasks are spawned; the GUI event
\* loop runs from here on
SetupReturn ==
    /\ appPc = "return"
    /\ ReturnOk

\* a handler that also kills the backend when the window is closed
WindowEventKillsBackend ==
    /\ appPc = "running"
    /\ closeLogs < MaxClose
    /\ \E ev \in {"CloseRequested", "Focused"} :
         IF ev = "CloseRequested"
         THEN /\ closeLogs' = closeLogs + 1
              /\ backend' = "exited"
              /\ chanOpen' = FALSE
         ELSE UNCHANGED <<closeLogs, backend, chanOpen>>
    /\ UNCHANGED <<appPc, setupErr, child_pid, backendPid, spawns, rx,
                   relayVars, probeVars>>

\* lines 112-116: only a close-requested event prints
WindowEvent ==
    /\ appPc = "running"
    /\ closeLogs < MaxClose
    /\ \E ev \in {"CloseRequested", "Focused"} :
         closeLogs' = IF ev = "CloseRequested" THEN closeLogs + 1
                      ELSE closeLogs
    /\ UNCHANGED <<appPc, setupErr, child_pid, envVars, relayVars, probeVars>>

----------------------------------------------------------------------------
(* The environment: the sidecar process and its event channel *)

\* the child writes a line, or the plugin reports an error or another event
BackendEmit(cap) ==
    /\ chanOpen
    /\ Len(rx) < cap
    /\ \E e \in OutputEvents : rx' = Append(rx, e)
    /\ UNCHANGED <<backend, backendPid, spawns, chanOpen, appVars, relayVars,
                   probeVars>>

\* the child exits: one Terminated event carries its exit code
BackendExit(cap) ==
    /\ backend = "running"
    /\ chanOpen
    /\ Len(rx) < cap
    /\ \E e \in TerminatedEvents : rx' = Append(rx, e)
    /\ backend' = "exited"
    /\ UNCHANGED <<backendPid, spawns, chanOpen, appVars, relayVars,
                   probeVars>>

\* the last sender of the channel is dropped
ChannelClose ==
    /\ chanOpen
    /\ chanOpen' = FALSE
    /\ UNCHANGED <<backend, backendPid, spawns, rx, appVars, relayVars,
                   probeVars>>

----------------------------------------------------------------------------
(* The output-relay task, lines 72-95 *)

\* a match that prints stderr lines on stdout like the stdout lines
RelayLogOneSink(e) ==
    CASE e.kind \in {"Stdout", "Stderr"} ->
           <<Log("stdout", "[Backend]", from_utf8_lossy(e.line), None)>>
      [] e.kind = "Error" ->
           <<Log("stderr", "[Backend Error]", <<>>, None)>>
      [] e.kind = "Terminated" ->
           <<Log("stdout", "[Backend] Process exited", <<>>, e.code)>>
      [] OTHER -> <<>>

\* lines 76-93: what the match prints for one event; the wildcard arm prints
\* nothing
RelayLog(e) ==
    CASE e.kind = "Stdout" ->
           <<Log("stdout", "[Backend]", from_utf8_lossy(e.line), None)>>
      [] e.kind = "Stderr" ->
           <<Log("stderr", "[Backend]", from_utf8_lossy(e.line), None)>>
      [] e.kind = "Error" ->
           <<Log("stderr", "[Backend Error]", <<>>, None)>>
      [] e.kind = "Terminated" ->
           <<Log("stdout", "[Backend] Process exited", <<>>, e.code)>>
      [] OTHER -> <<>>

\* a loop that also gives up on an Error event
RelayBreaksOnError(e) == e.kind \in {"Terminated", "Error"}

\* a loop that also gives up on an event of an unrecognised kind
RelayBreaksOnUnknown(e) == e.kind \in {"Terminated", "Other"}

\* lines 88-91: only Terminated breaks out of the loop
RelayBreaks(e) == e.kind = "Terminated"

\* a loop that spawns the backend again when it has terminated and goes on
\* receiving
RelayRecvRestarts ==
    /\ relayPc = "recv"
    /\ recvd < Len(rx)
    /\ LET e == rx[recvd + 1] IN
         /\ recvd' = recvd + 1
         /\ logged' = logged \o RelayLog(e)
         /\ relayPc' = "recv"
         /\ IF RelayBreaks(e)
            THEN backend' = "running" /\ spawns' = spawns + 1
            ELSE UNCHANGED <<backend, spawns>>
    /\ UNCHANGED <<appVars, backendPid, rx, chanOpen, probeVars>>

\* line 75, Some(event): one iteration of the loop
RelayRecv ==
    /\ relayPc = "recv"
    /\ recvd < Len(rx)
    /\ LET e == rx[recvd + 1] IN
         /\ recvd' = recvd + 1
         /\ logged' = logged \o RelayLog(e)
         /\ relayPc' = IF RelayBreaks(e) THEN "done" ELSE "recv"
    /\ UNCHANGED <<appVars, envVars, probeVars>>

\* line 75, None: the channel is drained and closed, the loop ends
RelayClosed ==
    /\ relayPc = "recv"
    /\ recvd = Len(rx)
    /\ ~chanOpen
    /\ relayPc' = "done"
    /\ UNCHANGED <<recvd, logged, appVars, envVars, probeVars>>

----------------------------------------------------------------------------
(* wait_for_backend_ready, lines 14-42 *)

\* the function returns r
ProbeReturn(r) ==
    /\ probeResult' = r
    /\ probePc' = "returned"

\* a function whose loop body runs once before max_attempts is looked at
ClientBuildEntersLoop ==
    /\ probeCalls' = probeCalls + 1
    /\ \E built \in BOOLEAN :
         IF ~built
         THEN /\ ProbeReturn("err_client")
              /\ UNCHANGED attempt
         ELSE /\ probePc' = "request"
              /\ attempt' = 1
              /\ UNCHANGED probeResult
    /\ UNCHANGED <<max_attempts, requests, delays, okAt, callerLog, appVars,
                   envVars, relayVars>>

\* lines 15-20: the client is built (`?` returns the error to the caller)
\* and the for loop is entered
ClientBuild ==
    /\ probeCalls' = probeCalls + 1
    /\ \E built \in BOOLEAN :
         IF ~built
         THEN /\ ProbeReturn("err_client")
              /\ UNCHANGED attempt
         ELSE IF 1 <= max_attempts
         THEN /\ probePc' = "request"
              /\ attempt' = 1
              /\ UNCHANGED probeResult
         ELSE /\ ProbeReturn("err_timeout")
              /\ UNCHANGED attempt
    /\ UNCHANGED <<max_attempts, requests, delays, okAt, callerLog, appVars,
                   envVars, relayVars>>

\* a probe task that first waits for the relay task to end
ProbeClientAfterRelay ==
    /\ probePc = "client"
    /\ relayPc = "done"
    /\ ClientBuild

\* line 99: the probe task calls the function when it is first polled
ProbeClient ==
    /\ probePc = "client"
    /\ ClientBuild

\* a probe that takes any response for a success, whatever its status
ProbeSucceedsAnyStatus(resp) == resp.ok

\* line 24: the arm that returns Ok(())
ProbeSucceeds(resp) == resp.ok /\ is_success(resp.status)

\* a probe that sleeps after every failed attempt, the last one included
ProbeSleepsAlways == attempt <= max_attempts

\* line 36: a sleep follows this attempt
ProbeSleeps == attempt < max_attempts

\* a loop that starts over at attempt 1 when the attempts are used up
LoopNextStartsOver ==
    /\ attempt' = IF attempt < max_attempts THEN attempt + 1 ELSE 1
    /\ probePc' = "request"
    /\ UNCHANGED probeResult

\* lines 20 and 41: the range 1..=max_attempts yields the next attempt, or
\* the loop is over and the function returns the error
LoopNext ==
    IF attempt < max_attempts
    THEN /\ attempt' = attempt + 1
         /\ probePc' = "request"
         /\ UNCHANGED probeResult
    ELSE /\ ProbeReturn("err_timeout")
         /\ UNCHANGED attempt

\* lines 21-36: one request and the match on its outcome
ProbeRequest ==
    /\ probePc = "request"
    /\ requests' = requests + 1
    /\ \E resp \in Responses :
         /\ okAt' = IF okAt = 0 /\ resp.ok /\ resp.status \in 200..299
                    THEN requests + 1 ELSE okAt
         /\ IF ProbeSucceeds(resp)
            THEN ProbeReturn("ok") /\ UNCHANGED attempt
            ELSE IF ProbeSleeps
            THEN probePc' = "sleep" /\ UNCHANGED <<attempt, probeResult>>
            ELSE LoopNext
    /\ UNCHANGED <<probeCalls, max_attempts, delays, callerLog, appVars,
                   envVars, relayVars>>

\* a probe whose sleep is only woken while the backend process is alive
ProbeSleepWhileBackendRuns ==
    /\ probePc = "sleep"
    /\ backend = "running"
    /\ delays' = delays + 1
    /\ LoopNext
    /\ UNCHANGED <<probeCalls, max_attempts, requests, okAt, callerLog,
                   appVars, envVars, relayVars>>

\* line 37 and the next turn of the for loop
ProbeSleep ==
    /\ probePc = "sleep"
    /\ delays' = delays + 1
    /\ LoopNext
    /\ UNCHANGED <<probeCalls, max_attempts, requests, okAt, callerLog,
                   appVars, envVars, relayVars>>

\* a probe task that prints the success line whatever the result
ReportLineAlwaysReady(result) == "ready"

\* lines 100-106: what the probe task prints for a result
ReportLine(result) == IF result = "ok" THEN "ready" ELSE "warning"

\* a probe task that calls wait_for_backend_ready again after a timeout
ProbeReportRetries ==
    /\ probePc = "returned"
    /\ callerLog' = ReportLine(probeResult)
    /\ probePc' = IF probeResult = "err_timeout" THEN "client" ELSE "done"
    /\ UNCHANGED <<probeCalls, max_attempts, attempt, requests, delays, okAt,
                   probeResult, appVars, envVars, relayVars>>

\* lines 99-107: the probe task prints the outcome and ends
ProbeReport ==
    /\ probePc = "returned"
    /\ callerLog' = ReportLine(probeResult)
    /\ probePc' = "done"
    /\ UNCHANGED <<probeCalls, max_attempts, attempt, requests, delays, okAt,
                   probeResult, appVars, envVars, relayVars>>

----------------------------------------------------------------------------
(* Specifications *)

Setup ==
    \/ SetupManage
    \/ SetupSidecar
    \/ SetupSpawn
    \/ SetupSpawnRelay
    \/ SetupSpawnProbe
    \/ SetupReturn

Environment(cap) ==
    \/ BackendEmit(cap)
    \/ BackendExit(cap)
    \/ ChannelClose

Relay ==
    \/ RelayRecv
    \/ RelayClosed

WaitForBackendReady ==
    \/ ProbeClient
    \/ ProbeRequest
    \/ ProbeSleep

Next ==
    \/ Setup
    \/ WindowEvent
    \/ Environment(MaxAppEvents)
    \/ Relay
    \/ WaitForBackendReady
    \/ ProbeReport

\* the application
Spec == Init /\ [][Next]_vars

\* the application under the async runtime's scheduling: a task that can take
\* a step is polled, and setup runs on
FairSpec ==
    /\ Spec
    /\ WF_vars(Setup)
    /\ WF_vars(Relay)
    /\ WF_vars(WaitForBackendReady)
    /\ WF_vars(ProbeReport)

\* the application up to the start of the probe task, with the relay and a
\* child that sends up to MaxEvents events; the probe's steps leave every
\* variable of the relay and of the channel unchanged
RelayNext ==
    \/ Setup
    \/ Environment(MaxEvents)
    \/ Relay

RelaySpec == Init /\ [][RelayNext]_vars

\* the same under the runtime's scheduling: setup runs on and a relay that
\* can take a step is polled
FairRelaySpec == RelaySpec /\ WF_vars(Setup) /\ WF_vars(Relay)

\* one call wait_for_backend_ready(n), for every n up to MaxN
ProbeInit ==
    /\ appPc = "start"
    /\ setupErr = "none"
    /\ child_pid = None
    /\ backend = "unspawned"
    /\ backendPid = None
    /\ spawns = 0
    /\ rx = <<>>
    /\ recvd = 0
    /\ chanOpen = FALSE
    /\ relayPc = "off"
    /\ logged = <<>>
    /\ probePc = "client"
    /\ probeCalls = 0
    /\ max_attempts \in 0..MaxN
    /\ attempt = 0
    /\ requests = 0
    /\ delays = 0
    /\ okAt = 0
    /\ probeResult = "none"
    /\ callerLog = "none"
    /\ closeLogs = 0

ProbeSpec == ProbeInit /\ [][WaitForBackendReady]_vars

\* the call under the runtime's scheduling: the awaited request and the
\* awaited sleep complete
FairProbeSpec == ProbeSpec /\ WF_vars(WaitForBackendReady)

----------------------------------------------------------------------------
(* Claims about wait_for_backend_ready, checked under ProbeSpec *)

\* the client was built and the loop is over
LoopReturned == probePc = "returned" /\ probeResult # "err_client"

\* C1: for max_attempts = N >= 1 and a client that was built: no request is
\* issued after the first 2xx response; when the function has returned and no
\* request was answered 2xx, exactly N requests were issued and the result is
\* the failure; when the first 2xx came on attempt k, k <= N, exactly k
\* requests were issued and the result is success.
C1_ExactAttempts ==
    max_attempts >= 1 =>
      /\ requests <= max_attempts
      /\ okAt > 0 => requests = okAt /\ probePc = "returned"
      /\ LoopReturned =>
           IF okAt = 0
           THEN requests = max_attempts /\ probeResult = "err_timeout"
           ELSE requests = okAt /\ okAt <= max_attempts /\ probeResult = "ok"

\* success on attempt 2 of 3
C1_Witness ==
    /\ max_attempts = 3
    /\ LoopReturned
    /\ okAt = 2
    /\ requests = 2
    /\ probeResult = "ok"

\* C2: the 500 ms delay occurs only between two consecutive attempts: before
\* request k there have been k-1 delays, a delay is only ever pending when a
\* further attempt follows and no 2xx was received, a run that fails after N
\* attempts has made N-1 delays and a run that succeeds on attempt k has made
\* k-1 delays.
C2_DelaysBetweenAttempts ==
    max_attempts >= 1 =>
      /\ probePc = "request" => delays = requests /\ requests < max_attempts
      /\ probePc = "sleep" =>
           delays = requests - 1 /\ requests < max_attempts /\ okAt = 0
      /\ LoopReturned =>
           /\ delays = requests - 1
           /\ probeResult = "err_timeout" => delays = max_attempts - 1
           /\ probeResult = "ok" => delays = okAt - 1

\* three requests against an endpoint that never answers 2xx: two delays
C2_Witness ==
    /\ max_attempts = 3
    /\ LoopReturned
    /\ probeResult = "err_timeout"
    /\ okAt = 0
    /\ requests = 3
    /\ delays = 2

----------------------------------------------------------------------------
(* Claims about the application, checked under Spec *)

\* C3: the process handle is absent until the spawn and, once the subprocess
\* has spawned, holds the spawned process's id.
C3_HandleHoldsPid ==
    /\ backend = "unspawned" => child_pid = None
    /\ backend # "unspawned" /\ appPc = "running" =>
         child_pid # None /\ child_pid = backendPid

\* C4 as claimed: a failure to construct the HTTP client is fatal to startup,
\* so the application never runs once it has happened.
C4_ClientFailureIsFatal ==
    probeResult = "err_client" => appPc # "running"

\* C4 as amended: a failure to construct the HTTP client happens inside the
\* probe task, after setup has spawned it: setup has not failed and is not
\* aborted, no health request and no delay is made, and the probe task ends
\* printing the warning.
C4_ClientFailureIsLogged ==
    probeResult = "err_client" =>
      /\ setupErr = "none"
      /\ appPc \in {"return", "running"}
      /\ requests = 0
      /\ delays = 0
      /\ probePc \in {"returned", "done"}
      /\ probePc = "done" => callerLog = "warning"

\* the client could not be built, the warning is printed, the app runs
C4_Witness ==
    /\ probeResult = "err_client"
    /\ probePc = "done"
    /\ callerLog = "warning"
    /\ appPc = "running"

\* nothing of the backend, the relay or the probe has been started
NothingStarted ==
    /\ backend = "unspawned"
    /\ spawns = 0
    /\ relayPc = "off"
    /\ recvd = 0
    /\ logged = <<>>
    /\ probePc = "off"
    /\ probeCalls = 0
    /\ requests = 0

\* C5: when the sidecar command cannot be created or the spawn fails, setup
\* is aborted with nothing started (no relay task, no probe task, no health
\* request), and from then on the application stays aborted: it never runs
\* and never starts a task.
C5_SetupFailureAborts ==
    /\ [](setupErr # "none" => appPc = "aborted" /\ NothingStarted)
    /\ [][setupErr # "none" =>
            UNCHANGED <<setupErr, appPc, relayPc, probePc, requests>>]_vars

\* the spawn failed and setup is aborted
C5_Witness ==
    /\ setupErr = "spawn"
    /\ appPc = "aborted"
    /\ NothingStarted

----------------------------------------------------------------------------
(* Claims about the relay loop, checked under RelaySpec *)

\* C6: a Terminated event is the terminal event of the relay loop: it is the
\* last event the loop ever receives, and once the loop is done it receives
\* and prints nothing more; a stdout line, a stderr line or an Error event is
\* printed and leaves the loop receiving, and each step takes one event.
C6_TerminatedIsTerminal ==
    /\ [](\A i \in 1..recvd :
            rx[i].kind = "Terminated" => i = recvd /\ relayPc = "done")
    /\ [][/\ relayPc = "done" => UNCHANGED <<relayPc, recvd, logged>>
          /\ recvd' # recvd =>
               /\ recvd' = recvd + 1
               /\ rx[recvd + 1].kind = "Terminated" =>
                    relayPc' = "done" /\ Len(logged') = Len(logged) + 1
               /\ rx[recvd + 1].kind \in {"Stdout", "Stderr", "Error"} =>
                    relayPc' = "recv" /\ Len(logged') = Len(logged) + 1
               /\ rx[recvd + 1].kind = "Other" => relayPc' = "recv"]_vars

\* an Error event was passed, Terminated ended the loop, and the event sent
\* after it stays unreceived
C6_Witness ==
    /\ Len(rx) = 3
    /\ rx[1].kind = "Error"
    /\ rx[2].kind = "Terminated"
    /\ recvd = 2
    /\ relayPc = "done"
    /\ Len(logged) = 2

\* the line the relay is to print for an event of one of the four kinds
PrintedFor(e) ==
    [sink |-> IF e.kind \in {"Stdout", "Terminated"} THEN "stdout"
              ELSE "stderr",
     tag  |-> CASE e.kind \in {"Stdout", "Stderr"} -> "[Backend]"
                [] e.kind = "Error" -> "[Backend Error]"
                [] e.kind = "Terminated" -> "[Backend] Process exited",
     text |-> [i \in DOMAIN e.line |->
                 IF e.line[i] = 255 THEN 65533 ELSE e.line[i]],
     code |-> e.code]

\* the lines to print for the first n events sent, those of another kind
\* left out
RECURSIVE ExpectedLog(_)
ExpectedLog(n) ==
    IF n = 0 THEN <<>>
    ELSE IF rx[n].kind = "Other" THEN ExpectedLog(n - 1)
    ELSE Append(ExpectedLog(n - 1), PrintedFor(rx[n]))

\* the events received are the events sent, in order, up to and including
\* the first Terminated event
ProcessedPrefix ==
    /\ recvd <= Len(rx)
    /\ \A i \in 1..(recvd - 1) : rx[i].kind # "Terminated"
    /\ recvd > 0 /\ rx[recvd].kind = "Terminated" => relayPc = "done"

\* C7 as claimed: the printed sequence is the prefix of the sequence sent, up
\* to and including the first Terminated event: one line for each event
\* received, in the same order.
C7_LoggedIsPrefix ==
    /\ ProcessedPrefix
    /\ Len(logged) = recvd
    /\ logged = ExpectedLog(recvd)

\* C7 as amended: the events received are the prefix of the sequence sent, up
\* to and including the first Terminated event, and the printed sequence is
\* that prefix in the same order with the events of an unrecognised kind
\* left out.
C7_LoggedIsFilteredPrefix ==
    /\ ProcessedPrefix
    /\ logged = ExpectedLog(recvd)

\* a stdout line, a stderr line and Terminated with code 0: three events
\* received, three lines printed in that order, the loop over
C7_Witness ==
    /\ Len(rx) = 3
    /\ rx[1].kind = "Stdout"
    /\ rx[2].kind = "Stderr"
    /\ rx[3] = Event("Terminated", <<>>, Some(0))
    /\ recvd = 3
    /\ relayPc = "done"
    /\ Len(logged) = 3
    /\ logged[1].sink = "stdout"
    /\ logged[2].sink = "stderr"
    /\ logged[3].code = Some(0)

----------------------------------------------------------------------------
(* Claims about the two tasks and setup, checked under FairSpec and Spec *)

\* C8: the probe task and the relay task complete independently: a probe
\* that has not finished can always take its next step, whatever the relay
\* does; a relay with an event to receive or a closed channel can always take
\* its step, whatever the probe does; a step of one task changes nothing of
\* the other; and, under fair scheduling, once the backend has terminated
\* both tasks reach completion.
C8_TasksIndependent ==
    /\ [](probePc \in {"client", "request", "sleep"} =>
            ENABLED WaitForBackendReady)
    /\ [](probePc = "returned" => ENABLED ProbeReport)
    /\ [](relayPc = "recv" /\ (recvd < Len(rx) \/ ~chanOpen) => ENABLED Relay)
    /\ [][/\ probePc' # probePc => UNCHANGED relayVars
          /\ relayPc' # relayPc \/ recvd' # recvd => UNCHANGED probeVars]_vars
    /\ (backend = "exited") ~> (relayPc = "done" /\ probePc = "done")

\* the probe has finished with success while the relay still waits for
\* events of a live backend
C8_Witness ==
    /\ probePc = "done"
    /\ probeResult = "ok"
    /\ relayPc = "recv"
    /\ recvd = Len(rx)
    /\ chanOpen
    /\ backend = "running"

\* the relay has finished on Terminated while the probe is still polling
RelayDoneProbePolling ==
    /\ relayPc = "done"
    /\ backend = "exited"
    /\ probePc = "sleep"
    /\ requests >= 1

\* C9: when the probe has exhausted all attempts the failure is only printed
\* as a warning: wait_for_backend_ready is called at most once, setup has not
\* failed and the application is not aborted, the backend spawned once is
\* neither spawned again nor touched by the report, and the probe task ends
\* for good.
C9_ExhaustionOnlyWarns ==
    /\ [](probeCalls <= 1)
    /\ [](probeResult = "err_timeout" =>
            /\ requests = max_attempts
            /\ okAt = 0
            /\ setupErr = "none"
            /\ appPc \in {"return", "running"}
            /\ spawns = 1
            /\ probePc \in {"returned", "done"}
            /\ probePc = "done" => callerLog = "warning")
    /\ [][probeResult = "err_timeout" =>
            /\ UNCHANGED <<probeResult, probeCalls, requests, delays, spawns,
                           backendPid>>
            /\ probePc' # probePc =>
                 probePc' = "done" /\ UNCHANGED <<appPc, envVars, relayVars>>]_vars

\* all 40 attempts failed, the warning is printed, the app and the backend
\* run on
C9_Witness ==
    /\ probePc = "done"
    /\ probeResult = "err_timeout"
    /\ callerLog = "warning"
    /\ requests = CallerAttempts
    /\ appPc = "running"
    /\ backend = "running"

\* C10: after a successful spawn setup never waits for either task: its next
\* step is enabled whatever the probe, the relay, the health endpoint and the
\* backend have done, the return changes nothing of the tasks, and under fair
\* scheduling setup reaches the running state.
C10_SetupNonBlocking ==
    /\ [](appPc \in {"spawn_relay", "spawn_probe", "return"} => ENABLED Setup)
    /\ [][appPc = "return" /\ appPc' # appPc =>
            appPc' = "running" /\ UNCHANGED <<envVars, relayVars, probeVars>>]_vars
    /\ (appPc = "spawn_relay") ~> (appPc = "running")

\* setup has returned while the probe has not yet been polled and the relay
\* has not received anything from the running backend
C10_Witness ==
    /\ appPc = "running"
    /\ probePc = "client"
    /\ probeResult = "none"
    /\ relayPc = "recv"
    /\ recvd = 0
    /\ backend = "running"

----------------------------------------------------------------------------
(* Claims about the single spawn and the window handler, checked under Spec *)

\* C11: the backend is spawned at most once in a run: the number of spawns
\* never exceeds one, a backend that has exited stays exited, the step that
\* receives Terminated prints one line and changes nothing of the backend,
\* the channel, setup or the probe, and a relay loop that is over stays over.
C11_SpawnedAtMostOnce ==
    /\ [](spawns <= 1)
    /\ [](recvd > 0 /\ rx[recvd].kind = "Terminated" =>
            relayPc = "done" /\ backend = "exited" /\ spawns = 1)
    /\ [][/\ spawns' # spawns => appPc = "spawn" /\ spawns = 0
          /\ backend = "exited" => backend' = "exited"
          /\ recvd' # recvd =>
               /\ Len(logged') <= Len(logged) + 1
               /\ UNCHANGED <<appVars, envVars, probeVars>>
          /\ relayPc = "done" => UNCHANGED <<relayVars, spawns, backendPid>>]_vars

\* the relay has received Terminated and is over; the one backend has exited
\* and the application runs on
C11_Witness ==
    /\ recvd > 0
    /\ rx[recvd].kind = "Terminated"
    /\ relayPc = "done"
    /\ backend = "exited"
    /\ spawns = 1
    /\ appPc = "running"

\* C12: the close-requested handler only prints: its step changes nothing
\* but the count of printed lines, and after it a probe that has not finished
\* and a relay with something to receive can take their next step as before.
C12_CloseOnlyLogs ==
    /\ [][closeLogs' # closeLogs =>
            /\ closeLogs' = closeLogs + 1
            /\ appPc = "running"
            /\ UNCHANGED <<appPc, setupErr, child_pid, envVars, relayVars,
                           probeVars>>]_vars
    /\ [](closeLogs > 0 /\ probePc \in {"client", "request", "sleep"} =>
            ENABLED WaitForBackendReady)
    /\ [](closeLogs > 0 /\ probePc = "returned" => ENABLED ProbeReport)
    /\ [](closeLogs > 0 /\ relayPc = "recv" /\ (recvd < Len(rx) \/ ~chanOpen) =>
            ENABLED Relay)

\* the window was closed while the probe was polling and the relay was
\* receiving from a running backend
C12_Witness ==
    /\ closeLogs = 1
    /\ probePc = "request"
    /\ requests >= 1
    /\ relayPc = "recv"
    /\ recvd = 1
    /\ Len(rx) = 2
    /\ backend = "running"
    /\ chanOpen
    /\ child_pid = None

----------------------------------------------------------------------------
(* Further claims about wait_for_backend_ready, checked under FairProbeSpec
   and ProbeSpec *)

\* C13: for every max_attempts, when each awaited request and sleep
\* completes, wait_for_backend_ready returns; it returns success or a
\* failure, it never issues more than max_attempts requests nor more than
\* max_attempts - 1 delays (none when max_attempts is 0), and once it has
\* returned nothing more is requested or awaited.
C13_ProbeTerminates ==
    /\ <>(probePc = "returned")
    /\ [](requests <= max_attempts)
    /\ [](delays <= IF max_attempts >= 1 THEN max_attempts - 1 ELSE 0)
    /\ [](probePc = "returned" =>
            probeResult \in {"ok", "err_client", "err_timeout"})
    /\ [][probePc = "returned" =>
            UNCHANGED <<probePc, probeResult, requests, delays>>]_vars

\* the longest run: every attempt up to the largest max_attempts failed
C13_Witness ==
    /\ max_attempts = MaxN
    /\ probePc = "returned"
    /\ probeResult = "err_timeout"
    /\ requests = MaxN
    /\ delays = MaxN - 1

\* C17: wait_for_backend_ready(0) issues no request and makes no delay, and
\* with its client built it returns the timeout failure; whatever
\* max_attempts is, success is returned only when at least one request was
\* issued and the last one issued was answered 2xx.
C17_ZeroAttempts ==
    /\ max_attempts = 0 =>
         /\ requests = 0
         /\ delays = 0
         /\ okAt = 0
         /\ probeResult # "ok"
         /\ LoopReturned => probeResult = "err_timeout"
    /\ probeResult = "ok" => requests >= 1 /\ okAt = requests

\* the call with max_attempts = 0 has returned the timeout failure
C17_Witness ==
    /\ max_attempts = 0
    /\ LoopReturned
    /\ probeResult = "err_timeout"
    /\ requests = 0
    /\ delays = 0

----------------------------------------------------------------------------
(* Claims about the probe and the backend's lifetime, checked under FairSpec
   and Spec *)

\* the probe task is in wait_for_backend_ready
ProbePolling == probePc \in {"client", "request", "sleep"}

\* a step of the backend, the channel or the relay
BackendOrRelayStep ==
    \/ backend' # backend
    \/ rx' # rx
    \/ chanOpen' # chanOpen
    \/ recvd' # recvd
    \/ relayPc' # relayPc

\* C14: the probe is not linked to the backend's lifetime: no step of the
\* backend, the channel or the relay changes anything of the probe; after the
\* backend has exited a polling probe can still take its next step, and a
\* pending request can still be answered 2xx and return success; the probe
\* only ever ends with success after a 2xx answer, with the client error, or
\* with the timeout failure after all 40 requests; and under fair scheduling
\* a probe polling when the backend has exited goes on to the end of its task.
C14_ProbeOutlivesBackend ==
    /\ [][BackendOrRelayStep => UNCHANGED probeVars]_vars
    /\ [](backend = "exited" /\ ProbePolling => ENABLED WaitForBackendReady)
    /\ [](backend = "exited" /\ probePc = "request" =>
            ENABLED (ProbeRequest /\ probeResult' = "ok"))
    /\ [](probePc \in {"returned", "done"} =>
            \/ probeResult = "ok" /\ okAt = requests /\ okAt >= 1
            \/ probeResult = "err_client" /\ requests = 0
            \/ /\ probeResult = "err_timeout"
               /\ okAt = 0
               /\ requests = CallerAttempts)
    /\ (backend = "exited" /\ ProbePolling) ~> (probePc = "done")

\* the backend has exited and the relay is over without any 2xx answer, and
\* the probe is about to issue its last request
C14_Witness ==
    /\ backend = "exited"
    /\ relayPc = "done"
    /\ rx[recvd].kind = "Terminated"
    /\ okAt = 0
    /\ probePc = "request"
    /\ requests = CallerAttempts - 1

\* the relay saw Terminated and the probe has reported success
ReadyAfterTerminated ==
    /\ backend = "exited"
    /\ relayPc = "done"
    /\ probePc = "done"
    /\ callerLog = "ready"

\* C16: while the backend is unspawned neither task has been started, no
\* health request has been issued and no child event has been sent or
\* relayed; a started task, a request and a relayed event each come after the
\* one successful spawn, with setup past the spawn step.
C16_NothingBeforeSpawn ==
    /\ backend = "unspawned" =>
         /\ spawns = 0
         /\ backendPid = None
         /\ relayPc = "off"
         /\ probePc = "off"
         /\ probeCalls = 0
         /\ requests = 0
         /\ rx = <<>>
         /\ recvd = 0
         /\ logged = <<>>
    /\ relayPc # "off" \/ probePc # "off" \/ requests > 0 \/ recvd > 0 =>
         /\ spawns = 1
         /\ appPc \in {"spawn_probe", "return", "running"}
    /\ probePc # "off" => relayPc # "off" /\ appPc \in {"return", "running"}

\* a request has been issued and an event relayed, after the spawn
C16_Witness ==
    /\ backend = "running"
    /\ spawns = 1
    /\ requests >= 1
    /\ recvd >= 1
    /\ Len(logged) >= 1

----------------------------------------------------------------------------
(* A further claim about the relay loop, checked under FairRelaySpec *)

\* the loop has received a Terminated event
TerminatedReceived == recvd > 0 /\ rx[recvd].kind = "Terminated"

\* recv has nothing more to yield: the channel is closed and drained
ChannelEnded == ~chanOpen /\ recvd = Len(rx)

\* C15: the relay loop ends exactly when a Terminated event has been received
\* or the channel has been closed and drained: a loop that is over has one of
\* the two, the step that ends it is one of the two, a loop that has
\* received Terminated is over, and under fair scheduling a loop whose
\* channel has been closed comes to its end, Terminated or not; events of the
\* other kinds, an unrecognised one included, leave it receiving.
C15_LoopEndsOnTerminatedOrClose ==
    /\ [](relayPc = "done" => TerminatedReceived \/ ChannelEnded)
    /\ [](TerminatedReceived => relayPc = "done")
    /\ [](relayPc = "recv" /\ chanOpen => ~TerminatedReceived)
    /\ [][relayPc = "recv" /\ relayPc' = "done" =>
            \/ recvd' = recvd + 1 /\ rx[recvd + 1].kind = "Terminated"
            \/ recvd' = recvd /\ ChannelEnded]_vars
    /\ [][recvd' # recvd /\ rx[recvd + 1].kind # "Terminated" =>
            relayPc' = "recv"]_vars
    /\ (relayPc = "recv" /\ ~chanOpen) ~> (relayPc = "done")

\* the channel closed without a Terminated event, after an unrecognised
\* event among others, and the loop is over
C15_Witness ==
    /\ relayPc = "done"
    /\ ~chanOpen
    /\ Len(rx) = 3
    /\ recvd = 3
    /\ \A i \in 1..3 : rx[i].kind # "Terminated"
    /\ rx[2].kind = "Other"

====
